---- MODULE Spec2Model ----
(***************************************************************************)
(* Parkit web front end: the map page (viewport query synchronizer), the   *)
(* MapView marker reconciliation and the reservation modal (availability   *)
(* and pricing calculator), modelled as state machines.                    *)
(*                                                                         *)
(*   SpecMap     the map page: debounce timer, cancellable nearby queries  *)
(*   SpecMarkers the MapView markers effect                                *)
(*   SpecModal   the reservation modal: slots, selection, submission       *)
(*   SpecClick   handleSlotClick over every slot tuple                     *)
(*   SpecPrice   calculateTotalPrice / getHourlyRate over every pricing    *)
(***************************************************************************)
EXTENDS Integers, Sequences, FiniteSets, TLC

(***************************************************************************)
(* Bounds of the model.                                                    *)
(***************************************************************************)
\* nearby requests issued per behaviour
MaxRequests == 2
\* handleBoundsChange calls per burst
MaxBurst == 3
\* marker (place) identifiers are 1 .. MaxMarkerId
MaxMarkerId == 3
\* the slot grid has the hours 0 .. MaxHour
MaxHour == 2
\* each availability count of a slot is 0 .. MaxCount
MaxCount == 1
\* each hourly rate of a PricingInfo is 0 .. MaxRate
MaxRate == 5
\* the date picker offers the days 1 .. MaxDay (1 is today)
MaxDay == 2
\* availability requests in flight at once
MaxFetches == 2
\* booking POSTs per behaviour
MaxPosts == 2
\* route searches per behaviour
MaxSearches == 2

\* handleInputChange calls of one run
MaxInputs == 3

(***************************************************************************)
(* Program constants.                                                      *)
(***************************************************************************)
\* setTimeout(..., 500) in handleBoundsChange
DebounceDelay == 500
\* fetchNearbyPlaces(lat, lng, radiusKm = 10)
DefaultRadiusKm == 10
\* Math.max(radiusKm, 5)
MinRadiusKm == 5

\* the clock advances in steps of half the debounce delay
StepMs == DebounceDelay \div 2

Null == [none |-> TRUE]

VARIABLES
  \* ---- map page (MapPageContent) ----
  mounted,            \* the page component is mounted
  mapCenter,          \* useState mapCenter (Null = undefined)
  places,             \* useState places: the place list
  loading,            \* useState loading
  debounceTimerRef,   \* debounceTimerRef.current: a timer id, 0 = null
  timers,             \* the runtime's pending timeouts
  abortControllerRef, \* abortControllerRef.current: a request id, 0 = null
  requests,           \* every nearby request issued, in order of issue
  geocodes,           \* the getCoordinatesFromPlaceId calls in flight
  urlDone,            \* the searchParams effect has run
  burstCalls,         \* history: number of calls in the current burst
  lastBounds,         \* history: bounds of the last handleBoundsChange call
  elapsed,            \* history: ms since the last handleBoundsChange call
  bursts,             \* history: number of bursts of handleBoundsChange calls
  placesBy,           \* history: id of the request whose response set places
  placesWhen,         \* history: number of requests issued when places was set
  routeMode,          \* useState routeMode
  routePolyline,      \* useState routePolyline
  routeSearches,      \* the handleRouteSearch calls, in order of call
  alongRequests,      \* every along-route request issued, in order of issue
  \* ---- MapView ----
  isLoaded,             \* useState isLoaded (mapInstanceRef.current is set)
  markers,              \* the markers prop: a list of marker ids
  markersRef,           \* markersRef.current: the overlays on the map
  previousMarkerIdsRef, \* previousMarkerIdsRef.current
  shownBefore,          \* history: ids on the map before the last effect run
  seenEarlier,          \* history: ids put on the map by any earlier effect run
  centeredAt,           \* the initialCenter prop at the last run of the centering effect
  \* ---- ReserveSpotModal ----
  tzOffset,          \* the client's UTC offset, minutes (local = UTC + tzOffset)
  open,              \* the open prop
  landOwnerId,       \* the landOwnerId prop (selectedPlace.id)
  loadingVehicles,   \* useState loadingVehicles
  token,             \* session.accessToken is present
  vehicles,          \* useState vehicles
  vehicleFetches,    \* fetchVehicles calls in flight
  formData,          \* useState formData: vehicleId, selectedDate
  selectedFeatures,  \* useState selectedFeatures: covered, charging
  timeSlots,         \* useState timeSlots
  pricing,           \* useState pricing
  featureCounts,     \* useState featureCounts
  selectedSlots,     \* useState selectedSlots
  loadingSlots,      \* useState loadingSlots
  showPriceSummary,  \* useState showPriceSummary
  submitting,        \* useState loading (of the modal)
  error,             \* useState error
  success,           \* useState success
  slotFetches,       \* fetchTimeSlots requests in flight, in order of issue
  posts,             \* POST /user/bookings requests in flight, in order of issue
  postsSent,         \* history: how many POSTs have been sent
  closeTimers,       \* pending 2000 ms timeouts set after a 201
  onSuccessCalls,    \* history: the calls of onSuccess
  lastClick,         \* history: the last handleSlotClick call and what it did
  selectedUnder,     \* history: date and features under which selectedSlots was picked
  \* ---- PlacesAutocomplete ----
  value,             \* the value prop: the text of the input
  suggestions,       \* useState suggestions: the input they answer and how many
  showSuggestions,   \* useState showSuggestions
  acLoading,         \* useState loading of the autocomplete
  isApiLoaded,       \* useState isApiLoaded
  acTimer,           \* debounceTimerRef.current of the autocomplete: the pending timeout
  lookups,           \* fetchAutocompleteSuggestions calls in flight, in order of call
  inputCalls         \* history: number of handleInputChange calls

routeVars == <<routeMode, routePolyline, routeSearches, alongRequests>>

mapVars == <<mounted, mapCenter, places, loading, debounceTimerRef, timers,
             abortControllerRef, requests, geocodes, urlDone, burstCalls, lastBounds,
             elapsed, bursts, placesBy, placesWhen, routeVars>>

markerVars == <<isLoaded, markers, markersRef, previousMarkerIdsRef,
                shownBefore, seenEarlier, centeredAt>>

modalVars == <<tzOffset, open, landOwnerId, token, vehicles, loadingVehicles,
               vehicleFetches, formData, selectedFeatures, timeSlots, pricing,
               featureCounts, selectedSlots, loadingSlots, showPriceSummary,
               submitting, error, success, slotFetches, posts, postsSent,
               closeTimers, onSuccessCalls, lastClick, selectedUnder>>

inputVars == <<value, suggestions, showSuggestions, acLoading, isApiLoaded,
               acTimer, lookups, inputCalls>>

vars == <<mapVars, markerVars, modalVars, inputVars>>

(***************************************************************************)
(* Map page: data                                                          *)
(***************************************************************************)
\* viewport bounds the map can report (degrees)
Regions ==
  { [ne |-> [lat |-> 12, lng |-> 24], sw |-> [lat |-> 10, lng |-> 20]],
    [ne |-> [lat |-> 10, lng |-> 20], sw |-> [lat |-> 10, lng |-> 20]] }

\* coordinates the geocoder can return
Coords == { [lat |-> 11, lng |-> 21], [lat |-> 13, lng |-> 23] }

\* place ids typed into / selected in the search box
PlaceIdStrings == {"ChIJ-a"}

\* backend place lists (each place reduced to its id)
PlaceLists == { <<1>>, <<2, 1>> }

\* Math.ceil(R * c) of the haversine distance centre -> north-east corner,
\* evaluated for each of Regions (R = 6371)
CeilHaversineKm(b) ==
  IF b.ne = b.sw THEN 0 ELSE 245

\* the query the debounce timer issues for bounds b
BoundsQuery(b) ==
  LET centerLat == (b.ne.lat + b.sw.lat) \div 2
      centerLng == (b.ne.lng + b.sw.lng) \div 2
      radiusKm  == CeilHaversineKm(b)
  IN  [lat |-> centerLat, lng |-> centerLng,
       radiusKm |-> IF radiusKm > MinRadiusKm THEN radiusKm ELSE MinRadiusKm]

\* setState on an unmounted component is dropped
SetState(old, new) == IF mounted THEN new ELSE old

(***************************************************************************)
(* Map page: timers and requests                                           *)
(***************************************************************************)
ClearTimeoutNoop(ts, id) == ts

\* clearTimeout(id)
ClearTimeout(ts, id) == { t \in ts : t.id # id }

\* abortControllerRef.current.abort(): a pending request is cancelled
AbortPreviousNoop(reqs, ref) == reqs

AbortPrevious(reqs, ref) ==
  [ i \in DOMAIN reqs |->
      IF i = ref /\ reqs[i].state = "pending"
        THEN [reqs[i] EXCEPT !.state = "aborted"]
        ELSE reqs[i] ]

NewControllerLost(reqs) == 0

\* abortControllerRef.current = new AbortController()
NewController(reqs) == Len(reqs) + 1

Pending(reqs) == { i \in DOMAIN reqs : reqs[i].state = "pending" }

\* nearby requests issued, plus those that scheduled work will still issue
Scheduled == Len(requests) + Cardinality(timers) + Len(geocodes)

\* setTimeout returns an id no pending timeout has
FreshTimerId ==
  CHOOSE i \in 1..(Cardinality(timers) + 2) :
    i # debounceTimerRef /\ \A t \in timers : t.id # i

\* the sequence s without its element at index g
RemoveAt(s, g) == [ i \in 1..(Len(s) - 1) |-> IF i < g THEN s[i] ELSE s[i + 1] ]

\* no timeout is due: a timeout runs as soon as its delay has elapsed
NoTimerDue == \A t \in timers : t.remaining > 0

\* the history variable elapsed saturates here
ElapsedCap == DebounceDelay + StepMs

FetchNearbyPlacesSkipped(q, src) ==
  UNCHANGED <<requests, abortControllerRef, loading>>

\* fetchNearbyPlaces(lat, lng, radiusKm), issued by src.  The cancelled
\* request's promise rejects when abort() is called; its catch/finally
\* (setLoading(false)) runs as a microtask after this call's synchronous
\* part (setLoading(true), axios.get), before any other event.
FetchNearbyPlaces(q, src) ==
  LET ref     == IF abortControllerRef = 0 THEN requests
                 ELSE AbortPrevious(requests, abortControllerRef)
      aborted == \E i \in DOMAIN requests :
                    requests[i].state = "pending" /\ ref[i].state = "aborted"
      viewport == src = "viewport"
  IN  /\ requests' = Append(ref,
           [lat |-> q.lat, lng |-> q.lng, radiusKm |-> q.radiusKm, limit |-> 50,
            kind |-> "nearby", src |-> src, state |-> "pending", result |-> Null,
            \* history: the burst this query answers, the time since its last call
            burst |-> IF viewport THEN bursts ELSE 0,
            sinceCall |-> IF viewport THEN elapsed ELSE 0,
            callBounds |-> IF viewport THEN lastBounds ELSE Null])
      /\ abortControllerRef' = NewController(requests)
      /\ loading' = SetState(loading, ~aborted)

(***************************************************************************)
(* Map page: actions                                                       *)
(***************************************************************************)
MapInit ==
  /\ mounted = TRUE
  /\ mapCenter = Null
  /\ places = <<>>
  /\ loading = FALSE
  /\ debounceTimerRef = 0
  /\ timers = {}
  /\ abortControllerRef = 0
  /\ requests = <<>>
  /\ geocodes = <<>>
  /\ urlDone = FALSE
  /\ burstCalls = 0
  /\ lastBounds = Null
  /\ elapsed = 0
  /\ bursts = 0
  /\ placesBy = 0
  /\ placesWhen = 0
  /\ routeMode = FALSE
  /\ routePolyline = ""
  /\ routeSearches = <<>>
  /\ alongRequests = <<>>

\* StepMs of time pass
Tick ==
  /\ NoTimerDue
  /\ burstCalls > 0
  /\ elapsed < ElapsedCap
  /\ timers' = { [t EXCEPT !.remaining = t.remaining - StepMs] : t \in timers }
  /\ elapsed' = elapsed + StepMs
  /\ UNCHANGED <<mounted, mapCenter, places, loading, debounceTimerRef,
                 abortControllerRef, requests, geocodes, urlDone, burstCalls,
                 lastBounds, bursts, placesBy, placesWhen>>
  /\ UNCHANGED <<routeVars, markerVars, modalVars, inputVars>>

\* handleBoundsChange(bounds): MapView reports the viewport
OnBoundsChange(b) ==
  /\ mounted
  /\ NoTimerDue
  /\ (burstCalls = 0 \/ elapsed >= DebounceDelay \/ burstCalls < MaxBurst)
  /\ Scheduled - Cardinality(timers) < MaxRequests
  /\ LET cleared == IF debounceTimerRef # 0
                      THEN ClearTimeout(timers, debounceTimerRef)
                      ELSE timers
         id == FreshTimerId
     IN  /\ timers' = cleared \cup
                        {[id |-> id, remaining |-> DebounceDelay, bounds |-> b]}
         /\ debounceTimerRef' = id
  /\ lastBounds' = b
  /\ elapsed' = 0
  /\ bursts' = IF burstCalls = 0 \/ elapsed >= DebounceDelay THEN bursts + 1 ELSE bursts
  /\ burstCalls' = IF burstCalls = 0 \/ elapsed >= DebounceDelay THEN 1 ELSE burstCalls + 1
  /\ UNCHANGED <<mounted, mapCenter, places, loading, abortControllerRef,
                 requests, geocodes, urlDone, placesBy, placesWhen>>

\* the map reports new bounds after the user panned or zoomed
HandleBoundsChange(b) ==
  /\ OnBoundsChange(b)
  /\ UNCHANGED <<routeVars, markerVars, modalVars, inputVars>>

\* the debounce timeout runs: centre and radius of the bounds, then the query
DebounceTimerFires(t) ==
  /\ t \in timers
  /\ t.remaining = 0
  /\ timers' = timers \ {t}
  /\ FetchNearbyPlaces(BoundsQuery(t.bounds), "viewport")
  /\ UNCHANGED <<mounted, mapCenter, places, debounceTimerRef, geocodes,
                 urlDone, burstCalls, lastBounds, elapsed, bursts, placesBy,
                 placesWhen>>
  /\ UNCHANGED <<routeVars, markerVars, modalVars, inputVars>>

\* the backend answers request r with a place list: setPlaces, setLoading(false)
NearbyResponse(r, list) ==
  /\ r \in Pending(requests)
  /\ NoTimerDue
  /\ requests' = [requests EXCEPT ![r].state = "done", ![r].result = list]
  /\ places' = SetState(places, list)
  /\ loading' = SetState(loading, FALSE)
  /\ placesBy' = SetState(placesBy, r)
  /\ placesWhen' = SetState(placesWhen, Len(requests))
  /\ UNCHANGED <<mounted, mapCenter, debounceTimerRef, timers,
                 abortControllerRef, geocodes, urlDone, burstCalls, lastBounds,
                 elapsed, bursts>>
  /\ UNCHANGED <<routeVars, markerVars, modalVars, inputVars>>

CatchClearsPlaces(old) == << >>

\* the catch of fetchNearbyPlaces logs and calls no setter: places stays
CatchKeepsPlaces(old) == old

\* request r fails (network, backend): logged, setLoading(false)
NearbyFailure(r) ==
  /\ r \in Pending(requests)
  /\ NoTimerDue
  /\ requests' = [requests EXCEPT ![r].state = "failed"]
  /\ loading' = SetState(loading, FALSE)
  /\ places' = CatchKeepsPlaces(places)
  /\ UNCHANGED <<mounted, mapCenter, debounceTimerRef, timers,
                 abortControllerRef, geocodes, urlDone, burstCalls, lastBounds,
                 elapsed, bursts, placesBy, placesWhen>>
  /\ UNCHANGED <<routeVars, markerVars, modalVars, inputVars>>

\* handleLocationSelect(value, placeId): the geocoding call starts
HandleLocationSelect(pid) ==
  /\ mounted
  /\ NoTimerDue
  /\ Scheduled < MaxRequests
  /\ geocodes' = Append(geocodes, [placeId |-> pid, purpose |-> "select"])
  /\ UNCHANGED <<mounted, mapCenter, places, loading, debounceTimerRef,
                 timers, abortControllerRef, requests, urlDone, burstCalls,
                 lastBounds, elapsed, bursts, placesBy, placesWhen>>
  /\ UNCHANGED <<routeVars, markerVars, modalVars, inputVars>>

\* searchParams effect, location search: setLoading(true), geocode placeId
SearchParamsEffect(pid) ==
  /\ mounted
  /\ ~urlDone
  /\ NoTimerDue
  /\ Scheduled < MaxRequests
  /\ urlDone' = TRUE
  /\ loading' = TRUE
  /\ geocodes' = Append(geocodes, [placeId |-> pid, purpose |-> "url"])
  /\ UNCHANGED <<mounted, mapCenter, places, debounceTimerRef, timers,
                 abortControllerRef, requests, burstCalls, lastBounds, elapsed,
                 bursts, placesBy, placesWhen>>
  /\ UNCHANGED <<routeVars, markerVars, modalVars, inputVars>>

\* getCoordinatesFromPlaceId resolves to coordinates: setMapCenter, then the query
GeocodeResolves(g, coords) ==
  /\ g \in DOMAIN geocodes
  /\ NoTimerDue
  /\ geocodes' = RemoveAt(geocodes, g)
  /\ mapCenter' = SetState(mapCenter, coords)
  /\ FetchNearbyPlaces([lat |-> coords.lat, lng |-> coords.lng,
                        radiusKm |-> DefaultRadiusKm], geocodes[g].purpose)
  /\ UNCHANGED <<mounted, places, debounceTimerRef, timers, urlDone, burstCalls,
                 lastBounds, elapsed, bursts, placesBy, placesWhen>>
  /\ UNCHANGED <<routeVars, markerVars, modalVars, inputVars>>

\* getCoordinatesFromPlaceId resolves to null (no key, status not OK, error)
GeocodeFails(g) ==
  /\ g \in DOMAIN geocodes
  /\ NoTimerDue
  /\ geocodes' = RemoveAt(geocodes, g)
  /\ UNCHANGED <<mounted, mapCenter, places, loading, debounceTimerRef,
                 timers, abortControllerRef, requests, urlDone, burstCalls,
                 lastBounds, elapsed, bursts, placesBy, placesWhen>>
  /\ UNCHANGED <<routeVars, markerVars, modalVars, inputVars>>

\* refreshPlaces(): the modal's onSuccess; nothing happens without a map centre
RefreshPlaces ==
  /\ mounted
  /\ NoTimerDue
  /\ mapCenter # Null
  /\ Scheduled < MaxRequests
  /\ FetchNearbyPlaces([lat |-> mapCenter.lat, lng |-> mapCenter.lng,
                        radiusKm |-> DefaultRadiusKm], "refresh")
  /\ UNCHANGED <<mounted, mapCenter, places, debounceTimerRef, timers,
                 geocodes, urlDone, burstCalls, lastBounds, elapsed, bursts,
                 placesBy, placesWhen>>
  /\ UNCHANGED <<routeVars, markerVars, modalVars, inputVars>>

CleanupTimersSkipped(ts, ref) == ts

\* the cleanup's `if (debounceTimerRef.current) clearTimeout(...)`
CleanupTimers(ts, ref) == IF ref # 0 THEN ClearTimeout(ts, ref) ELSE ts

\* cleanup effect on unmount: clearTimeout, abort
Unmount ==
  /\ mounted
  /\ NoTimerDue
  /\ mounted' = FALSE
  /\ timers' = CleanupTimers(timers, debounceTimerRef)
  /\ requests' = IF abortControllerRef # 0
                   THEN AbortPrevious(requests, abortControllerRef) ELSE requests
  /\ UNCHANGED <<mapCenter, places, loading, debounceTimerRef,
                 abortControllerRef, geocodes, urlDone, burstCalls, lastBounds,
                 elapsed, bursts, placesBy, placesWhen>>
  /\ UNCHANGED <<routeVars, markerVars, modalVars, inputVars>>

MapNext ==
  \/ Tick
  \/ \E b \in Regions : HandleBoundsChange(b)
  \/ \E t \in timers : DebounceTimerFires(t)
  \/ \E r \in DOMAIN requests, list \in PlaceLists : NearbyResponse(r, list)
  \/ \E r \in DOMAIN requests : NearbyFailure(r)
  \/ \E pid \in PlaceIdStrings : HandleLocationSelect(pid)
  \/ \E pid \in PlaceIdStrings : SearchParamsEffect(pid)
  \/ \E g \in DOMAIN geocodes, c \in Coords : GeocodeResolves(g, c)
  \/ \E g \in DOMAIN geocodes : GeocodeFails(g)
  \/ RefreshPlaces
  \/ Unmount

(***************************************************************************)
(* Map page: route search                                                  *)
(***************************************************************************)
\* place ids of the start and of the destination in the URL
StartPlaceIds == {"ChIJ-a"}
DestPlaceIds == {"ChIJ-b"}

\* overview polylines the directions service can return
Polylines == {"poly-a", "poly-b"}

\* bufferKm and limit of the body of POST /map/along-route
BufferKm == 2
AlongRouteLimit == 50

\* bounds.extend(startCoords), bounds.extend(destCoords), bounds.getCenter()
BoundsCenter(a, b) ==
  [lat |-> (a.lat + b.lat) \div 2, lng |-> (a.lng + b.lng) \div 2]

EitherResolved(startCoords, destCoords) == startCoords # Null \/ destCoords # Null

\* the negation of `!startCoords || !destCoords`
BothResolved(startCoords, destCoords) == startCoords # Null /\ destCoords # Null

\* the body fetchPlacesAlongRoute posts
AlongRouteBody(encodedPolyline) ==
  [encodedPolyline |-> encodedPolyline, bufferKm |-> BufferKm, limit |-> AlongRouteLimit]

\* the searchParams effect in route mode, and handleRouteSearch up to the
\* await of waitForGoogleMaps
RouteSearchEffect(startPlaceId, destPlaceId) ==
  /\ mounted
  /\ Len(routeSearches) < MaxSearches
  /\ loading' = TRUE
  /\ routeMode' = TRUE
  /\ routeSearches' = Append(routeSearches,
       [startPlaceId |-> startPlaceId, destPlaceId |-> destPlaceId,
        phase |-> "maps", startDone |-> FALSE, destDone |-> FALSE,
        startCoords |-> Null, destCoords |-> Null])
  /\ UNCHANGED <<mounted, mapCenter, places, debounceTimerRef, timers,
                 abortControllerRef, requests, geocodes, urlDone, burstCalls,
                 lastBounds, elapsed, bursts, placesBy, placesWhen,
                 routePolyline, alongRequests>>
  /\ UNCHANGED <<markerVars, modalVars, inputVars>>

\* waitForGoogleMaps resolves: Promise.all starts both getCoordinatesFromPlaceId
\* calls
GoogleMapsReady(s) ==
  /\ s \in DOMAIN routeSearches
  /\ routeSearches[s].phase = "maps"
  /\ routeSearches' = [routeSearches EXCEPT ![s].phase = "geocoding"]
  /\ UNCHANGED <<mounted, mapCenter, places, loading, debounceTimerRef, timers,
                 abortControllerRef, requests, geocodes, urlDone, burstCalls,
                 lastBounds, elapsed, bursts, placesBy, placesWhen,
                 routeMode, routePolyline, alongRequests>>
  /\ UNCHANGED <<markerVars, modalVars, inputVars>>

\* what follows Promise.all once both calls have settled: the early return, or
\* directionsService.route
AfterPromiseAll(search) ==
  IF ~(search.startDone /\ search.destDone) THEN search
  ELSE IF BothResolved(search.startCoords, search.destCoords)
       THEN [search EXCEPT !.phase = "routing"]
       ELSE [search EXCEPT !.phase = "failed"]

\* one of the two getCoordinatesFromPlaceId calls settles, with coordinates or
\* with null (no API key, status not OK, request failed)
RouteGeocodeSettles(s, end, coords) ==
  /\ s \in DOMAIN routeSearches
  /\ routeSearches[s].phase = "geocoding"
  /\ \/ /\ end = "start"
        /\ ~routeSearches[s].startDone
        /\ routeSearches' = [routeSearches EXCEPT ![s] =
             AfterPromiseAll([@ EXCEPT !.startDone = TRUE, !.startCoords = coords])]
     \/ /\ end = "dest"
        /\ ~routeSearches[s].destDone
        /\ routeSearches' = [routeSearches EXCEPT ![s] =
             AfterPromiseAll([@ EXCEPT !.destDone = TRUE, !.destCoords = coords])]
  /\ loading' = IF routeSearches'[s].phase = "failed"
                  THEN SetState(loading, FALSE) ELSE loading
  /\ UNCHANGED <<mounted, mapCenter, places, debounceTimerRef, timers,
                 abortControllerRef, requests, geocodes, urlDone, burstCalls,
                 lastBounds, elapsed, bursts, placesBy, placesWhen,
                 routeMode, routePolyline, alongRequests>>
  /\ UNCHANGED <<markerVars, modalVars, inputVars>>

\* the callback of directionsService.route with status OK: setRoutePolyline,
\* setMapCenter, fetchPlacesAlongRoute up to its await
DirectionsOK(s, encodedPolyline) ==
  /\ s \in DOMAIN routeSearches
  /\ routeSearches[s].phase = "routing"
  /\ routeSearches' = [routeSearches EXCEPT ![s].phase = "along"]
  /\ routePolyline' = SetState(routePolyline, encodedPolyline)
  /\ mapCenter' = SetState(mapCenter,
       BoundsCenter(routeSearches[s].startCoords, routeSearches[s].destCoords))
  /\ alongRequests' = Append(alongRequests,
       [body |-> AlongRouteBody(encodedPolyline), search |-> s,
        state |-> "pending"])
  /\ UNCHANGED <<mounted, places, loading, debounceTimerRef, timers,
                 abortControllerRef, requests, geocodes, urlDone, burstCalls,
                 lastBounds, elapsed, bursts, placesBy, placesWhen, routeMode>>
  /\ UNCHANGED <<markerVars, modalVars, inputVars>>

\* the callback of directionsService.route with another status
DirectionsFails(s) ==
  /\ s \in DOMAIN routeSearches
  /\ routeSearches[s].phase = "routing"
  /\ routeSearches' = [routeSearches EXCEPT ![s].phase = "failed"]
  /\ loading' = SetState(loading, FALSE)
  /\ UNCHANGED <<mounted, mapCenter, places, debounceTimerRef, timers,
                 abortControllerRef, requests, geocodes, urlDone, burstCalls,
                 lastBounds, elapsed, bursts, placesBy, placesWhen,
                 routeMode, routePolyline, alongRequests>>
  /\ UNCHANGED <<markerVars, modalVars, inputVars>>

\* POST /map/along-route resolves: setPlaces, and the finally
AlongRouteResponse(r, list) ==
  /\ r \in DOMAIN alongRequests
  /\ alongRequests[r].state = "pending"
  /\ alongRequests' = [alongRequests EXCEPT ![r].state = "done"]
  /\ places' = SetState(places, list)
  /\ placesBy' = SetState(placesBy, 0)
  /\ placesWhen' = SetState(placesWhen, Len(requests))
  /\ loading' = SetState(loading, FALSE)
  /\ UNCHANGED <<mounted, mapCenter, debounceTimerRef, timers,
                 abortControllerRef, requests, geocodes, urlDone, burstCalls,
                 lastBounds, elapsed, bursts, routeMode, routePolyline,
                 routeSearches>>
  /\ UNCHANGED <<markerVars, modalVars, inputVars>>

\* POST /map/along-route rejects: the catch and the finally
AlongRouteFailure(r) ==
  /\ r \in DOMAIN alongRequests
  /\ alongRequests[r].state = "pending"
  /\ alongRequests' = [alongRequests EXCEPT ![r].state = "failed"]
  /\ loading' = SetState(loading, FALSE)
  /\ UNCHANGED <<mounted, mapCenter, places, debounceTimerRef, timers,
                 abortControllerRef, requests, geocodes, urlDone, burstCalls,
                 lastBounds, elapsed, bursts, placesBy, placesWhen, routeMode,
                 routePolyline, routeSearches>>
  /\ UNCHANGED <<markerVars, modalVars, inputVars>>

RouteNext ==
  \/ \E a \in StartPlaceIds, b \in DestPlaceIds : RouteSearchEffect(a, b)
  \/ \E s \in DOMAIN routeSearches : GoogleMapsReady(s)
  \/ \E s \in DOMAIN routeSearches, end \in {"start", "dest"},
        c \in Coords \cup {Null} : RouteGeocodeSettles(s, end, c)
  \/ \E s \in DOMAIN routeSearches, p \in Polylines : DirectionsOK(s, p)
  \/ \E s \in DOMAIN routeSearches : DirectionsFails(s)
  \/ \E r \in DOMAIN alongRequests, list \in PlaceLists : AlongRouteResponse(r, list)
  \/ \E r \in DOMAIN alongRequests : AlongRouteFailure(r)
  \/ Unmount

(***************************************************************************)
(* MapView: the markers effect                                             *)
(***************************************************************************)
MarkerIds == 1..MaxMarkerId

\* marker lists the parent can pass: no identifier twice
MarkerLists ==
  { l \in UNION { [1..n -> MarkerIds] : n \in 0..MaxMarkerId } :
      \A i, j \in DOMAIN l : i # j => l[i] # l[j] }

Range(l) == { l[i] : i \in DOMAIN l }

PreviousIdsKept(prev, current) == prev

\* previousMarkerIdsRef.current = currentMarkerIds
PreviousIdsUpdate(prev, current) == current

NewMarkerIdsAll(list, prev) == Range(list)

\* newMarkerIds: the ids of the list that previousMarkerIdsRef does not have
NewMarkerIds(list, prev) == { id \in Range(list) : id \notin prev }

\* the overlays created for list: each knows whether it animates, and its
\* stagger index [...newMarkerIds].indexOf(id)
Overlays(list, prev) ==
  LET new == NewMarkerIds(list, prev)
  IN  [ i \in DOMAIN list |->
          [ id |-> list[i],
            isNewMarker |-> list[i] \in new,
            newMarkerIndex |->
              IF list[i] \in new
                THEN Cardinality({ j \in 1..(i - 1) : list[j] \in new })
                ELSE -1 ] ]

\* the markers effect for the list now in the markers prop
MarkersEffect(loaded, list) ==
  IF ~loaded
    THEN UNCHANGED <<markersRef, previousMarkerIdsRef, shownBefore, seenEarlier>>
    ELSE /\ markersRef' = Overlays(list, previousMarkerIdsRef)
         /\ previousMarkerIdsRef' = PreviousIdsUpdate(previousMarkerIdsRef, Range(list))
         /\ shownBefore' = { markersRef[i].id : i \in DOMAIN markersRef }
         /\ seenEarlier' = seenEarlier \cup { markersRef[i].id : i \in DOMAIN markersRef }

MarkersInit ==
  /\ isLoaded = FALSE
  /\ markers = <<>>
  /\ markersRef = <<>>
  /\ previousMarkerIdsRef = {}
  /\ shownBefore = {}
  /\ seenEarlier = {}
  /\ centeredAt = Null

\* checkGoogleMaps finds window.google.maps: the map is created,
\* setIsLoaded(true), and the markers effect runs for the current prop; the
\* timeout callback runs after the effects of the renders before it
MapLoads ==
  /\ ~isLoaded
  /\ centeredAt = mapCenter
  /\ isLoaded' = TRUE
  /\ UNCHANGED <<markers, centeredAt>>
  /\ MarkersEffect(TRUE, markers)
  /\ UNCHANGED <<mapVars, modalVars, inputVars>>

\* the parent renders with a new markers array (places changed)
MarkersChange(list) ==
  /\ markers' = list
  /\ UNCHANGED <<isLoaded, centeredAt>>
  /\ MarkersEffect(isLoaded, list)
  /\ UNCHANGED <<mapVars, modalVars, inputVars>>

\* the effect on [initialCenter]: with a map, setCenter, setZoom(14) and
\* onBoundsChange with the bounds the map then has
CenterEffect(b) ==
  /\ mounted
  /\ mapCenter # centeredAt
  /\ centeredAt' = mapCenter
  /\ IF isLoaded /\ mapCenter # Null
     THEN OnBoundsChange(b)
     ELSE UNCHANGED <<mounted, mapCenter, places, loading, debounceTimerRef, timers,
                      abortControllerRef, requests, geocodes, urlDone, burstCalls,
                      lastBounds, elapsed, bursts, placesBy, placesWhen>>
  /\ UNCHANGED <<isLoaded, markers, markersRef, previousMarkerIdsRef, shownBefore,
                 seenEarlier>>
  /\ UNCHANGED <<routeVars, modalVars, inputVars>>

\* a route search with the map view and no action of the user on the map
RouteViewNext ==
  \/ \E a \in StartPlaceIds, b \in DestPlaceIds : RouteSearchEffect(a, b)
  \/ \E s \in DOMAIN routeSearches : GoogleMapsReady(s)
  \/ \E s \in DOMAIN routeSearches, end \in {"start", "dest"},
        c \in Coords \cup {Null} : RouteGeocodeSettles(s, end, c)
  \/ \E s \in DOMAIN routeSearches, p \in Polylines : DirectionsOK(s, p)
  \/ \E s \in DOMAIN routeSearches : DirectionsFails(s)
  \/ \E r \in DOMAIN alongRequests, list \in PlaceLists : AlongRouteResponse(r, list)
  \/ \E r \in DOMAIN alongRequests : AlongRouteFailure(r)
  \/ MapLoads
  \/ \E b \in Regions : CenterEffect(b)
  \/ Tick
  \/ \E t \in timers : DebounceTimerFires(t)
  \/ \E r \in DOMAIN requests, list \in PlaceLists : NearbyResponse(r, list)
  \/ \E r \in DOMAIN requests : NearbyFailure(r)

MarkersNext ==
  \/ MapLoads
  \/ \E list \in MarkerLists : MarkersChange(list)

(***************************************************************************)
(* ReserveSpotModal: data                                                  *)
(***************************************************************************)
Hours == 0 .. MaxHour

Days == 1 .. MaxDay

\* getTodayDate(): the local calendar day at the time of the call
GetTodayDate == CHOOSE d \in Days : \A e \in Days : d <= e

TzOffsets == {-300, 0, 330}

MinutesPerDay == 24 * 60

\* response.data.user.vehicles of GET /user/details
VehicleList == << [id |-> "v1", type |-> "CAR"], [id |-> "v2", type |-> "BIKE"] >>

Counts == 0 .. MaxCount

Rates == 0 .. MaxRate

\* interface TimeSlot (the fields the modal reads)
TimeSlot(h, avail, past, b, c, ch, cc) ==
  [hour |-> h, isAvailable |-> avail, isPast |-> past, basicAvailable |-> b,
   coveredAvailable |-> c, chargingAvailable |-> ch,
   coveredAndChargingAvailable |-> cc]

TimeSlots(h) ==
  { TimeSlot(h, avail, past, b, c, ch, cc) :
      avail \in BOOLEAN, past \in BOOLEAN,
      b \in Counts, c \in Counts, ch \in Counts, cc \in Counts }

\* interface PricingInfo (the hourly rates; the daily rates are never read)
PricingInfo(h, c, ch) ==
  [hourlyRate |-> h, coveredHourlyRate |-> c, chargingHourlyRate |-> ch]

Pricings == { PricingInfo(h, c, ch) : h \in Rates, c \in Rates, ch \in Rates }

\* interface FeatureCounts
FeatureCounts(t, b, c, ch, cc) ==
  [total |-> t, basic |-> b, covered |-> c, charging |-> ch,
   coveredAndCharging |-> cc]

FeatureSelections == [covered : BOOLEAN, charging : BOOLEAN]

\* bodies of GET /map/availability/slots/:id the backend may answer with
SlotResponses ==
  { [slots |-> [i \in 1 .. MaxHour + 1 |->
                  IF i = 1 THEN TimeSlot(0, TRUE, TRUE, 1, 0, 0, 0)
                  ELSE TimeSlot(i - 1, TRUE, FALSE, 1, 1, 0, 1)],
     pricing |-> PricingInfo(5, 2, 3),
     featureCounts |-> FeatureCounts(3, 1, 1, 0, 1)],
    [slots |-> [i \in 1 .. MaxHour + 1 |->
                  TimeSlot(i - 1, TRUE, FALSE, 1, 0, 0, 0)],
     pricing |-> PricingInfo(4, 1, 0),
     featureCounts |-> FeatureCounts(1, 1, 0, 0, 0)] }

\* err.response?.data?.error of a failed POST /user/bookings, "" when absent
PostErrors == {"Slot already booked", ""}

PostStatuses == {200, 201}

(***************************************************************************)
(* ReserveSpotModal: functions                                             *)
(***************************************************************************)
\* timeSlots.find((s) => s.hour === hour)
FindSlot(ts, hour) ==
  IF \E i \in DOMAIN ts : ts[i].hour = hour
  THEN ts[CHOOSE i \in DOMAIN ts :
            ts[i].hour = hour /\ \A j \in DOMAIN ts : ts[j].hour = hour => i <= j]
  ELSE Null

IsFeatureAvailableNoBoth(slot, f) ==
  IF f.covered /\ f.charging THEN slot.coveredAndChargingAvailable > 0
  ELSE IF f.covered THEN slot.coveredAvailable > 0
  ELSE IF f.charging THEN slot.chargingAvailable > 0
  ELSE \/ slot.basicAvailable > 0
       \/ slot.coveredAvailable > 0
       \/ slot.chargingAvailable > 0
       \/ slot.coveredAndChargingAvailable > 0

\* the feature test of handleSlotClick
IsFeatureAvailable(slot, f) ==
  IF f.covered /\ f.charging THEN slot.coveredAndChargingAvailable > 0
  ELSE IF f.covered
    THEN slot.coveredAvailable > 0 \/ slot.coveredAndChargingAvailable > 0
  ELSE IF f.charging
    THEN slot.chargingAvailable > 0 \/ slot.coveredAndChargingAvailable > 0
  ELSE \/ slot.basicAvailable > 0
       \/ slot.coveredAvailable > 0
       \/ slot.chargingAvailable > 0
       \/ slot.coveredAndChargingAvailable > 0

\* prev.includes(hour)
Includes(s, x) == \E i \in DOMAIN s : s[i] = x

\* prev.filter((h) => h !== hour)
Without(s, x) == SelectSeq(s, LAMBDA h : h # x)

RECURSIVE InsertSorted(_, _)
InsertSorted(s, x) ==
  IF s = << >> THEN << x >>
  ELSE IF x < Head(s) THEN << x >> \o s
  ELSE << Head(s) >> \o InsertSorted(Tail(s), x)

\* [...s].sort((a, b) => a - b)
RECURSIVE SortAscending(_)
SortAscending(s) ==
  IF s = << >> THEN << >> ELSE InsertSorted(SortAscending(Tail(s)), Head(s))

HandleSlotClickUnsorted(ts, f, prev, hour) ==
  LET slot == FindSlot(ts, hour) IN
    IF slot = Null THEN prev
    ELSE IF slot.isPast THEN prev
    ELSE IF ~IsFeatureAvailable(slot, f) THEN prev
    ELSE IF Includes(prev, hour) THEN Without(prev, hour)
    ELSE Append(prev, hour)

\* handleSlotClick(hour): the next value of selectedSlots
HandleSlotClick(ts, f, prev, hour) ==
  LET slot == FindSlot(ts, hour) IN
    IF slot = Null THEN prev
    ELSE IF slot.isPast THEN prev
    ELSE IF ~IsFeatureAvailable(slot, f) THEN prev
    ELSE IF Includes(prev, hour) THEN Without(prev, hour)
    ELSE SortAscending(Append(prev, hour))

GetHourlyRate(p, f) ==
  LET rate0 == p.hourlyRate
      rate1 == IF f.covered THEN rate0 + p.coveredHourlyRate ELSE rate0
  IN IF f.charging THEN rate1 + p.chargingHourlyRate ELSE rate1

CalculateTotalPriceNoCharging(p, f, sel) ==
  LET base0 == p.hourlyRate
      base1 == IF f.covered THEN base0 + p.coveredHourlyRate ELSE base0
  IN Len(sel) * base1

CalculateTotalPrice(p, f, sel) ==
  LET base0 == p.hourlyRate
      base1 == IF f.covered THEN base0 + p.coveredHourlyRate ELSE base0
      base2 == IF f.charging THEN base1 + p.chargingHourlyRate ELSE base1
  IN Len(sel) * base2

GetAvailableCountForFeatures(slot, f) ==
  IF f.covered /\ f.charging THEN slot.coveredAndChargingAvailable
  ELSE IF f.covered
    THEN slot.coveredAvailable + slot.coveredAndChargingAvailable
  ELSE IF f.charging
    THEN slot.chargingAvailable + slot.coveredAndChargingAvailable
  ELSE slot.basicAvailable + slot.coveredAvailable
         + slot.chargingAvailable + slot.coveredAndChargingAvailable

\* isDisabled of a slot button in the grid
IsDisabled(slot, f) ==
  ~slot.isAvailable \/ slot.isPast \/ GetAvailableCountForFeatures(slot, f) = 0

\* vehicles.find((v) => v.id === vehicleId)?.type || "CAR"
VehicleTypeOf(vehs, vehicleId) ==
  IF \E i \in DOMAIN vehs : vehs[i].id = vehicleId
  THEN vehs[CHOOSE i \in DOMAIN vehs : vehs[i].id = vehicleId].type
  ELSE "CAR"

\* Instants are minutes since the epoch, UTC; a date string is its day number.
\* new Date("YYYY-MM-DD"): a date-only string is UTC midnight of that day
NewDate(day) == day * MinutesPerDay

\* date.setHours(h, 0, 0, 0): hour h of the LOCAL calendar day of the instant
SetHours(instant, h, offset) ==
  LET localDay == (instant + offset) \div MinutesPerDay
  IN localDay * MinutesPerDay + h * 60 - offset

\* date.toISOString(): the UTC calendar day and minute of day of the instant
ToISOString(instant) ==
  [day |-> instant \div MinutesPerDay, minute |-> instant % MinutesPerDay]

\* sortedSlots[0]
StartHour(sel) == SortAscending(sel)[1]

EndHourLastSlot(sel) == SortAscending(sel)[Len(sel)]

\* sortedSlots[sortedSlots.length - 1] + 1
EndHour(sel) == SortAscending(sel)[Len(sel)] + 1

\* the body handleSubmit posts to /user/bookings
BookingBody(fd, owner, p, f, sel, offset) ==
  [vehicleId |-> fd.vehicleId,
   landOwnerId |-> owner,
   startTime |-> ToISOString(SetHours(NewDate(fd.selectedDate), StartHour(sel), offset)),
   endTime |-> ToISOString(SetHours(NewDate(fd.selectedDate), EndHour(sel), offset)),
   totalPrice |-> CalculateTotalPrice(p, f, sel),
   hasCoveredParking |-> f.covered,
   hasChargingStation |-> f.charging]

(***************************************************************************)
(* ReserveSpotModal: state                                                 *)
(***************************************************************************)
NoPricing == PricingInfo(0, 0, 0)

NoFeatureCounts == FeatureCounts(0, 0, 0, 0, 0)

NoFeatures == [covered |-> FALSE, charging |-> FALSE]

\* the useState initial values, for a client in some time zone
ModalInit ==
  /\ tzOffset \in TzOffsets
  /\ token \in BOOLEAN
  /\ landOwnerId = "lo1"
  /\ open = FALSE
  /\ vehicles = << >>
  /\ loadingVehicles = FALSE
  /\ vehicleFetches = 0
  /\ formData = [vehicleId |-> "", selectedDate |-> GetTodayDate]
  /\ selectedFeatures = NoFeatures
  /\ timeSlots = << >>
  /\ pricing = NoPricing
  /\ featureCounts = NoFeatureCounts
  /\ selectedSlots = << >>
  /\ loadingSlots = FALSE
  /\ showPriceSummary = FALSE
  /\ submitting = FALSE
  /\ error = ""
  /\ success = FALSE
  /\ slotFetches = << >>
  /\ posts = << >>
  /\ postsSent = 0
  /\ closeTimers = 0
  /\ onSuccessCalls = 0
  /\ lastClick = Null
  /\ selectedUnder = {}

\* if (!open && !showPriceSummary) return null
Rendered == open \/ showPriceSummary

SummaryView == Rendered /\ ~success /\ showPriceSummary

SelectionView == Rendered /\ ~success /\ ~showPriceSummary

\* the request fetchTimeSlots sends, from the values its closure holds
SlotRequest(owner, fd, vehs) ==
  [landOwnerId |-> owner, date |-> fd.selectedDate,
   vehicleType |-> VehicleTypeOf(vehs, fd.vehicleId)]

SlotsEffectNever(isOpen, owner, fd, vehs, fetches) == fetches

\* the "fetch time slots" effect: runs when open, the date, the vehicle or
\* fetchTimeSlots changed, and fetches if the modal is open with date and vehicle
SlotsEffect(isOpen, owner, fd, vehs, fetches) ==
  IF isOpen /\ fd.vehicleId # ""
  THEN Append(fetches, SlotRequest(owner, fd, vehs))
  ELSE fetches

\* history: the dates and feature choices under which the hours of a selection
\* were picked
PickedUnder(sel, under, fd, f) ==
  IF sel = << >> THEN {} ELSE under \cup {[date |-> fd.selectedDate, features |-> f]}

(***************************************************************************)
(* ReserveSpotModal: actions                                               *)
(***************************************************************************)
\* the page's Reserve button: setReserveModalOpen(true)
OpenModal ==
  /\ ~open
  /\ vehicleFetches = 0
  /\ Len(slotFetches) < MaxFetches
  /\ open' = TRUE
  /\ IF token
     THEN vehicleFetches' = vehicleFetches + 1 /\ loadingVehicles' = TRUE
     ELSE UNCHANGED <<vehicleFetches, loadingVehicles>>
  /\ slotFetches' = SlotsEffect(TRUE, landOwnerId, formData, vehicles, slotFetches)
  /\ loadingSlots' = (loadingSlots \/ formData.vehicleId # "")
  /\ UNCHANGED <<tzOffset, landOwnerId, token, vehicles, formData, selectedFeatures,
                 timeSlots, pricing, featureCounts, selectedSlots, showPriceSummary,
                 submitting, error, success, posts, postsSent, onSuccessCalls,
                 closeTimers,
                 lastClick, selectedUnder>>
  /\ UNCHANGED <<mapVars, markerVars, inputVars>>

\* onClose (Escape, the close buttons, the backdrop) and the effect on !open
CloseModal ==
  /\ open
  /\ open' = FALSE
  /\ error' = ""
  /\ success' = FALSE
  /\ showPriceSummary' = FALSE
  /\ UNCHANGED <<tzOffset, landOwnerId, token, vehicles, loadingVehicles,
                 vehicleFetches, formData, selectedFeatures, timeSlots, pricing,
                 featureCounts, selectedSlots, loadingSlots, submitting,
                 slotFetches, posts, postsSent, onSuccessCalls,
                 closeTimers, lastClick,
                 selectedUnder>>
  /\ UNCHANGED <<mapVars, markerVars, inputVars>>

\* fetchVehicles resolves: setVehicles gives fetchTimeSlots a new identity, so
\* the slots effect runs again
VehiclesResponse ==
  /\ vehicleFetches > 0
  /\ Len(slotFetches) < MaxFetches
  /\ vehicleFetches' = vehicleFetches - 1
  /\ vehicles' = VehicleList
  /\ loadingVehicles' = FALSE
  /\ slotFetches' = SlotsEffect(open, landOwnerId, formData, VehicleList, slotFetches)
  /\ loadingSlots' = (loadingSlots \/ (open /\ formData.vehicleId # ""))
  /\ UNCHANGED <<tzOffset, open, landOwnerId, token, formData, selectedFeatures,
                 timeSlots, pricing, featureCounts, selectedSlots, showPriceSummary,
                 submitting, error, success, posts, postsSent, onSuccessCalls,
                 closeTimers,
                 lastClick, selectedUnder>>
  /\ UNCHANGED <<mapVars, markerVars, inputVars>>

VehiclesFailure ==
  /\ vehicleFetches > 0
  /\ vehicleFetches' = vehicleFetches - 1
  /\ loadingVehicles' = FALSE
  /\ UNCHANGED <<tzOffset, open, landOwnerId, token, vehicles, formData,
                 selectedFeatures, timeSlots, pricing, featureCounts, selectedSlots,
                 loadingSlots, showPriceSummary, submitting, error, success,
                 slotFetches, posts, postsSent, onSuccessCalls,
                 closeTimers, lastClick,
                 selectedUnder>>
  /\ UNCHANGED <<mapVars, markerVars, inputVars>>

\* the vehicle radio's onChange: the effect fetches for the new vehicle, then the
\* setTimeout(..., 0) calls the fetchTimeSlots of the render before the change
SelectVehicle(i) ==
  /\ SelectionView
  /\ ~loadingVehicles
  /\ i \in DOMAIN vehicles
  /\ vehicles[i].id # formData.vehicleId
  /\ Len(slotFetches) + 2 <= MaxFetches
  /\ LET fd == [formData EXCEPT !.vehicleId = vehicles[i].id] IN
       /\ formData' = fd
       /\ slotFetches' =
            Append(SlotsEffect(open, landOwnerId, fd, vehicles, slotFetches),
                   SlotRequest(landOwnerId, formData, vehicles))
  /\ selectedSlots' = << >>
  /\ selectedUnder' = {}
  /\ loadingSlots' = TRUE
  /\ UNCHANGED <<tzOffset, open, landOwnerId, token, vehicles, loadingVehicles,
                 vehicleFetches, selectedFeatures, timeSlots, pricing,
                 featureCounts, showPriceSummary, submitting, error, success,
                 posts, postsSent, onSuccessCalls, closeTimers, lastClick>>
  /\ UNCHANGED <<mapVars, markerVars, inputVars>>

\* the date picker's onChange with another day (minDate is today)
ChangeDate(d) ==
  /\ SelectionView
  /\ d # formData.selectedDate
  /\ d >= GetTodayDate
  /\ Len(slotFetches) < MaxFetches
  /\ LET fd == [formData EXCEPT !.selectedDate = d] IN
       /\ formData' = fd
       /\ slotFetches' = SlotsEffect(open, landOwnerId, fd, vehicles, slotFetches)
  /\ loadingSlots' = (loadingSlots \/ formData.vehicleId # "")
  /\ UNCHANGED <<tzOffset, open, landOwnerId, token, vehicles, loadingVehicles,
                 vehicleFetches, selectedFeatures, timeSlots, pricing,
                 featureCounts, selectedSlots, showPriceSummary, submitting, error,
                 success, posts, postsSent, onSuccessCalls,
                 closeTimers, lastClick, selectedUnder>>
  /\ UNCHANGED <<mapVars, markerVars, inputVars>>

\* the feature section is rendered
FeatureSection ==
  SelectionView /\ formData.vehicleId # "" /\ featureCounts.total > 0

\* the covered checkbox's onChange
ToggleCovered ==
  /\ FeatureSection
  /\ featureCounts.covered > 0 \/ featureCounts.coveredAndCharging > 0
  /\ selectedFeatures' = [selectedFeatures EXCEPT !.covered = ~@]
  /\ selectedSlots' = << >>
  /\ selectedUnder' = {}
  /\ UNCHANGED <<tzOffset, open, landOwnerId, token, vehicles, loadingVehicles,
                 vehicleFetches, formData, timeSlots, pricing, featureCounts,
                 loadingSlots, showPriceSummary, submitting, error, success,
                 slotFetches, posts, postsSent, onSuccessCalls,
                 closeTimers, lastClick>>
  /\ UNCHANGED <<mapVars, markerVars, inputVars>>

\* the charging checkbox's onChange (not offered for a BIKE)
ToggleCharging ==
  /\ FeatureSection
  /\ ~\E i \in DOMAIN vehicles :
         vehicles[i].id = formData.vehicleId /\ vehicles[i].type = "BIKE"
  /\ featureCounts.charging > 0 \/ featureCounts.coveredAndCharging > 0
  /\ selectedFeatures' = [selectedFeatures EXCEPT !.charging = ~@]
  /\ selectedSlots' = << >>
  /\ selectedUnder' = {}
  /\ UNCHANGED <<tzOffset, open, landOwnerId, token, vehicles, loadingVehicles,
                 vehicleFetches, formData, timeSlots, pricing, featureCounts,
                 loadingSlots, showPriceSummary, submitting, error, success,
                 slotFetches, posts, postsSent, onSuccessCalls,
                 closeTimers, lastClick>>
  /\ UNCHANGED <<mapVars, markerVars, inputVars>>

\* a fetchTimeSlots request resolves (in any order of arrival)
SlotsResponse(i, resp) ==
  /\ i \in DOMAIN slotFetches
  /\ timeSlots' = resp.slots
  /\ pricing' = resp.pricing
  /\ featureCounts' = resp.featureCounts
  /\ selectedSlots' = << >>
  /\ selectedUnder' = {}
  /\ loadingSlots' = FALSE
  /\ slotFetches' = RemoveAt(slotFetches, i)
  /\ UNCHANGED <<tzOffset, open, landOwnerId, token, vehicles, loadingVehicles,
                 vehicleFetches, formData, selectedFeatures, showPriceSummary,
                 submitting, error, success, posts, postsSent, onSuccessCalls,
                 closeTimers, lastClick>>
  /\ UNCHANGED <<mapVars, markerVars, inputVars>>

\* a fetchTimeSlots request rejects: the catch and the finally
SlotsFailure(i) ==
  /\ i \in DOMAIN slotFetches
  /\ error' = "Failed to load available time slots"
  /\ loadingSlots' = FALSE
  /\ slotFetches' = RemoveAt(slotFetches, i)
  /\ UNCHANGED <<tzOffset, open, landOwnerId, token, vehicles, loadingVehicles,
                 vehicleFetches, formData, selectedFeatures, timeSlots, pricing,
                 featureCounts, selectedSlots, showPriceSummary, submitting,
                 success, posts, postsSent, onSuccessCalls,
                 closeTimers, lastClick, selectedUnder>>
  /\ UNCHANGED <<mapVars, markerVars, inputVars>>

\* handleSlotClick(hour) runs
SetSelectedSlots(hour) ==
  LET sel == HandleSlotClick(timeSlots, selectedFeatures, selectedSlots, hour) IN
    /\ selectedSlots' = sel
    /\ selectedUnder' = PickedUnder(sel, selectedUnder, formData, selectedFeatures)
    /\ UNCHANGED <<tzOffset, open, landOwnerId, token, vehicles, loadingVehicles,
                   vehicleFetches, formData, selectedFeatures, timeSlots, pricing,
                   featureCounts, loadingSlots, showPriceSummary, submitting,
                   error, success, slotFetches, posts, postsSent, onSuccessCalls,
                 closeTimers>>
    /\ UNCHANGED <<mapVars, markerVars, inputVars>>

\* the slot grid is rendered
SlotGrid ==
  SelectionView /\ formData.vehicleId # "" /\ ~loadingSlots /\ timeSlots # << >>

\* a click on an enabled slot button of the grid
SlotClick(i) ==
  /\ SlotGrid
  /\ i \in DOMAIN timeSlots
  /\ ~IsDisabled(timeSlots[i], selectedFeatures)
  /\ SetSelectedSlots(timeSlots[i].hour)
  /\ UNCHANGED lastClick

\* handleSlotClick(hour) is called, with a record of what the call did
HandleSlotClickCall(hour) ==
  /\ SetSelectedSlots(hour)
  /\ lastClick' = [hour |-> hour, slot |-> FindSlot(timeSlots, hour),
                   features |-> selectedFeatures,
                   changed |-> (selectedSlots' # selectedSlots)]

\* the Continue button
Continue ==
  /\ SelectionView
  /\ vehicles # << >>
  /\ selectedSlots # << >>
  /\ showPriceSummary' = TRUE
  /\ UNCHANGED <<tzOffset, open, landOwnerId, token, vehicles, loadingVehicles,
                 vehicleFetches, formData, selectedFeatures, timeSlots, pricing,
                 featureCounts, selectedSlots, loadingSlots, submitting, error,
                 success, slotFetches, posts, postsSent, onSuccessCalls,
                 closeTimers, lastClick,
                 selectedUnder>>
  /\ UNCHANGED <<mapVars, markerVars, inputVars>>

\* "Back to Selection" and the backdrop of the price summary
BackToSelection ==
  /\ SummaryView
  /\ showPriceSummary' = FALSE
  /\ UNCHANGED <<tzOffset, open, landOwnerId, token, vehicles, loadingVehicles,
                 vehicleFetches, formData, selectedFeatures, timeSlots, pricing,
                 featureCounts, selectedSlots, loadingSlots, submitting, error,
                 success, slotFetches, posts, postsSent, onSuccessCalls,
                 closeTimers, lastClick,
                 selectedUnder>>
  /\ UNCHANGED <<mapVars, markerVars, inputVars>>

ValidationErrorNoToken(fd, sel, tok) ==
  IF fd.vehicleId = "" THEN "Please select a vehicle"
  ELSE IF sel = << >> THEN "Please select at least one time slot"
  ELSE ""

\* the checks of handleSubmit before the POST: the message of the first one
\* that fails, "" when all pass
ValidationError(fd, sel, tok) ==
  IF fd.vehicleId = "" THEN "Please select a vehicle"
  ELSE IF sel = << >> THEN "Please select at least one time slot"
  ELSE IF ~tok THEN "Authentication required. Please sign in again."
  ELSE ""

\* handleSubmit, up to the await of the POST
HandleSubmit ==
  /\ postsSent < MaxPosts
  /\ IF ValidationError(formData, selectedSlots, token) # ""
     THEN /\ error' = ValidationError(formData, selectedSlots, token)
          /\ submitting' = FALSE
          /\ UNCHANGED <<posts, postsSent>>
     ELSE /\ error' = ""
          /\ submitting' = TRUE
          /\ postsSent' = postsSent + 1
          /\ posts' = Append(posts,
               [body |-> BookingBody(formData, landOwnerId, pricing,
                                     selectedFeatures, selectedSlots, tzOffset),
                selectedSlots |-> selectedSlots,
                selectedDate |-> formData.selectedDate,
                startHour |-> StartHour(selectedSlots),
                endHour |-> EndHour(selectedSlots)])
  /\ UNCHANGED <<tzOffset, open, landOwnerId, token, vehicles, loadingVehicles,
                 vehicleFetches, formData, selectedFeatures, timeSlots, pricing,
                 featureCounts, selectedSlots, loadingSlots, showPriceSummary,
                 success, slotFetches, closeTimers, onSuccessCalls, lastClick,
                 selectedUnder>>
  /\ UNCHANGED <<mapVars, markerVars, inputVars>>

ConfirmNeverDisabled(isLoading) == FALSE

\* disabled={loading} of the Confirm button
ConfirmDisabled(isLoading) == isLoading

\* the Confirm button of the price summary
ConfirmBooking ==
  /\ SummaryView
  /\ ~ConfirmDisabled(submitting)
  /\ HandleSubmit

\* the POST resolves with a 2xx status
PostResponse(i, status) ==
  /\ i \in DOMAIN posts
  /\ posts' = RemoveAt(posts, i)
  /\ IF status = 201
     THEN /\ success' = TRUE
          /\ onSuccessCalls' = onSuccessCalls + 1
          /\ closeTimers' = closeTimers + 1
     ELSE UNCHANGED <<success, onSuccessCalls, closeTimers>>
  /\ submitting' = FALSE
  /\ UNCHANGED <<tzOffset, open, landOwnerId, token, vehicles, loadingVehicles,
                 vehicleFetches, formData, selectedFeatures, timeSlots, pricing,
                 featureCounts, selectedSlots, loadingSlots, showPriceSummary,
                 error, slotFetches, postsSent, lastClick, selectedUnder>>
  /\ UNCHANGED <<mapVars, markerVars, inputVars>>

FailureMessageGeneric(msg) == "Failed to create booking"

\* the catch of handleSubmit: err.response.data.error if there is one
FailureMessage(msg) == IF msg # "" THEN msg ELSE "Failed to create booking"

\* the POST rejects, with or without an error message from the server
PostFailure(i, msg) ==
  /\ i \in DOMAIN posts
  /\ posts' = RemoveAt(posts, i)
  /\ error' = FailureMessage(msg)
  /\ submitting' = FALSE
  /\ UNCHANGED <<tzOffset, open, landOwnerId, token, vehicles, loadingVehicles,
                 vehicleFetches, formData, selectedFeatures, timeSlots, pricing,
                 featureCounts, selectedSlots, loadingSlots, showPriceSummary,
                 success, slotFetches, postsSent, onSuccessCalls,
                 closeTimers, lastClick,
                 selectedUnder>>
  /\ UNCHANGED <<mapVars, markerVars, inputVars>>

\* the 2000 ms timeout set after a 201: onClose (with the effect on !open if the
\* modal was open) and the reset of the form
CloseTimerFires ==
  /\ closeTimers > 0
  /\ closeTimers' = closeTimers - 1
  /\ open' = FALSE
  /\ error' = IF open THEN "" ELSE error
  /\ showPriceSummary' = FALSE
  /\ success' = FALSE
  /\ formData' = [vehicleId |-> "", selectedDate |-> GetTodayDate]
  /\ selectedSlots' = << >>
  /\ selectedUnder' = {}
  /\ UNCHANGED <<tzOffset, landOwnerId, token, vehicles, loadingVehicles,
                 vehicleFetches, selectedFeatures, timeSlots, pricing,
                 featureCounts, loadingSlots, submitting, slotFetches, posts,
                 postsSent, onSuccessCalls, lastClick>>
  /\ UNCHANGED <<mapVars, markerVars, inputVars>>

\* choosing vehicle, date, features and hours, up to the price summary
ModalNext ==
  \/ OpenModal
  \/ CloseModal
  \/ VehiclesResponse
  \/ VehiclesFailure
  \/ \E i \in DOMAIN vehicles : SelectVehicle(i)
  \/ \E d \in Days : ChangeDate(d)
  \/ ToggleCovered
  \/ ToggleCharging
  \/ \E i \in DOMAIN slotFetches, resp \in SlotResponses : SlotsResponse(i, resp)
  \/ \E i \in DOMAIN slotFetches : SlotsFailure(i)
  \/ \E i \in DOMAIN timeSlots : SlotClick(i)
  \/ Continue
  \/ BackToSelection

\* choosing vehicle, date, features and hours, and confirming on the price
\* summary: up to the POST
ReserveNext ==
  \/ OpenModal
  \/ CloseModal
  \/ VehiclesResponse
  \/ VehiclesFailure
  \/ \E i \in DOMAIN vehicles : SelectVehicle(i)
  \/ \E d \in Days : ChangeDate(d)
  \/ ToggleCovered
  \/ ToggleCharging
  \/ \E i \in DOMAIN slotFetches, resp \in SlotResponses : SlotsResponse(i, resp)
  \/ \E i \in DOMAIN slotFetches : SlotsFailure(i)
  \/ \E i \in DOMAIN timeSlots : SlotClick(i)
  \/ Continue
  \/ BackToSelection
  \/ ConfirmBooking

\* ascending sequences of hours
RECURSIVE AscendingFrom(_)
AscendingFrom(h) ==
  IF h > MaxHour THEN { << >> }
  ELSE AscendingFrom(h + 1) \cup { << h >> \o s : s \in AscendingFrom(h + 1) }

\* the checkboxes that can have been ticked for a vehicle and featureCounts
OfferedFeatures(vehs, vehicleId, fc) ==
  { f \in FeatureSelections :
      /\ f.covered => (fc.total > 0 /\ (fc.covered > 0 \/ fc.coveredAndCharging > 0))
      /\ f.charging => /\ fc.total > 0
                       /\ VehicleTypeOf(vehs, vehicleId) # "BIKE"
                       /\ (fc.charging > 0 \/ fc.coveredAndCharging > 0) }

\* the price summary of a selection made in the grid, for any vehicle, date,
\* availability, feature choice and hours: the inputs of handleSubmit
BookingInit ==
  /\ tzOffset \in TzOffsets
  /\ token \in BOOLEAN
  /\ landOwnerId = "lo1"
  /\ open = TRUE
  /\ vehicles = VehicleList
  /\ loadingVehicles = FALSE
  /\ vehicleFetches = 0
  /\ formData \in [vehicleId : {VehicleList[i].id : i \in DOMAIN VehicleList},
                    selectedDate : Days]
  /\ \E resp \in SlotResponses :
        /\ timeSlots = resp.slots
        /\ pricing = resp.pricing
        /\ featureCounts = resp.featureCounts
  /\ selectedFeatures \in OfferedFeatures(vehicles, formData.vehicleId, featureCounts)
  /\ selectedSlots \in
        { sel \in AscendingFrom(0) :
            /\ sel # << >>
            /\ \A k \in DOMAIN sel :
                  /\ FindSlot(timeSlots, sel[k]) # Null
                  /\ ~IsDisabled(FindSlot(timeSlots, sel[k]), selectedFeatures) }
  /\ loadingSlots = FALSE
  /\ showPriceSummary = TRUE
  /\ submitting = FALSE
  /\ error = ""
  /\ success = FALSE
  /\ slotFetches = << >>
  /\ posts = << >>
  /\ postsSent = 0
  /\ closeTimers = 0
  /\ onSuccessCalls = 0
  /\ lastClick = Null
  /\ selectedUnder = {[date |-> formData.selectedDate, features |-> selectedFeatures]}

\* any vehicle choice, hour selection and session with which handleSubmit can
\* be called: its inputs
SubmitInit ==
  /\ tzOffset = 0
  /\ token \in BOOLEAN
  /\ landOwnerId = "lo1"
  /\ open = TRUE
  /\ vehicles = VehicleList
  /\ loadingVehicles = FALSE
  /\ vehicleFetches = 0
  /\ formData \in [vehicleId : {""} \cup {VehicleList[i].id : i \in DOMAIN VehicleList},
                    selectedDate : Days]
  /\ \E resp \in SlotResponses :
        /\ timeSlots = resp.slots
        /\ pricing = resp.pricing
        /\ featureCounts = resp.featureCounts
  /\ selectedFeatures \in FeatureSelections
  /\ selectedSlots \in AscendingFrom(0)
  /\ loadingSlots = FALSE
  /\ showPriceSummary = TRUE
  /\ submitting = FALSE
  /\ error = ""
  /\ success = FALSE
  /\ slotFetches = << >>
  /\ posts = << >>
  /\ postsSent = 0
  /\ closeTimers = 0
  /\ onSuccessCalls = 0
  /\ lastClick = Null
  /\ selectedUnder = {}

\* handleSubmit is called, and its POST settles
SubmitNext ==
  \/ HandleSubmit
  \/ \E i \in DOMAIN posts, status \in PostStatuses : PostResponse(i, status)
  \/ \E i \in DOMAIN posts, msg \in PostErrors : PostFailure(i, msg)

\* confirming the booking, and what follows
BookingNext ==
  \/ ConfirmBooking
  \/ \E i \in DOMAIN posts, status \in PostStatuses : PostResponse(i, status)
  \/ \E i \in DOMAIN posts, msg \in PostErrors : PostFailure(i, msg)
  \/ CloseTimerFires
  \/ BackToSelection
  \/ Continue
  \/ CloseModal
  \/ OpenModal
  \/ VehiclesResponse
  \/ VehiclesFailure
  \/ \E i \in DOMAIN slotFetches, resp \in SlotResponses : SlotsResponse(i, resp)
  \/ \E i \in DOMAIN slotFetches : SlotsFailure(i)

\* the modal with one slot of hour 0, of any availability, under any feature
\* choice: the inputs of handleSlotClick
ClickInit ==
  /\ tzOffset = 0
  /\ token = TRUE
  /\ landOwnerId = "lo1"
  /\ open = TRUE
  /\ vehicles = VehicleList
  /\ loadingVehicles = FALSE
  /\ vehicleFetches = 0
  /\ formData = [vehicleId |-> "v1", selectedDate |-> GetTodayDate]
  /\ selectedFeatures \in FeatureSelections
  /\ timeSlots \in { << slot >> : slot \in TimeSlots(0) }
  /\ pricing = NoPricing
  /\ featureCounts = NoFeatureCounts
  /\ selectedSlots = << >>
  /\ loadingSlots = FALSE
  /\ showPriceSummary = FALSE
  /\ submitting = FALSE
  /\ error = ""
  /\ success = FALSE
  /\ slotFetches = << >>
  /\ posts = << >>
  /\ postsSent = 0
  /\ closeTimers = 0
  /\ onSuccessCalls = 0
  /\ lastClick = Null
  /\ selectedUnder = {}

ClickNext == \E hour \in Hours : HandleSlotClickCall(hour)

\* the modal with every hour bookable under any feature choice, and any
\* PricingInfo: the inputs of calculateTotalPrice and getHourlyRate
PriceInit ==
  /\ tzOffset = 0
  /\ token = TRUE
  /\ landOwnerId = "lo1"
  /\ open = TRUE
  /\ vehicles = VehicleList
  /\ loadingVehicles = FALSE
  /\ vehicleFetches = 0
  /\ formData = [vehicleId |-> "v1", selectedDate |-> GetTodayDate]
  /\ selectedFeatures \in FeatureSelections
  /\ timeSlots = [i \in 1 .. MaxHour + 1 |-> TimeSlot(i - 1, TRUE, FALSE, 1, 1, 1, 1)]
  /\ pricing \in Pricings
  /\ featureCounts = FeatureCounts(4, 1, 1, 1, 1)
  /\ selectedSlots = << >>
  /\ loadingSlots = FALSE
  /\ showPriceSummary = FALSE
  /\ submitting = FALSE
  /\ error = ""
  /\ success = FALSE
  /\ slotFetches = << >>
  /\ posts = << >>
  /\ postsSent = 0
  /\ closeTimers = 0
  /\ onSuccessCalls = 0
  /\ lastClick = Null
  /\ selectedUnder = {}

PriceNext == \E i \in DOMAIN timeSlots : SlotClick(i)

(***************************************************************************)
(* PlacesAutocomplete                                                      *)
(***************************************************************************)
\* texts typed into the input
TypedValues == {"", "a", "ab"}

\* suggestion.placePrediction.text.text of a picked suggestion
DisplayText == "Abbey Road"

\* fetchedSuggestions.slice(0, 5)
SuggestionLimit == 5

\* how many suggestions a lookup can return
ResultCounts == {0, 3, 7}

NoSuggestions == [input |-> "", count |-> 0]

\* setTimeout(..., 300) of handleInputChange: the timeout runs some time after
\* it was set unless it is cleared before
NoTimer == [none |-> TRUE]

\* fetchedSuggestions.slice(0, 5).length
Slice(n) == IF n > SuggestionLimit THEN SuggestionLimit ELSE n

AutocompleteInit ==
  /\ value = ""
  /\ suggestions = NoSuggestions
  /\ showSuggestions = FALSE
  /\ acLoading = FALSE
  /\ isApiLoaded = FALSE
  /\ acTimer = NoTimer
  /\ lookups = << >>
  /\ inputCalls = 0

\* loadGoogleMapsScript resolves: setIsApiLoaded(true)
ApiLoads ==
  /\ ~isApiLoaded
  /\ isApiLoaded' = TRUE
  /\ UNCHANGED <<value, suggestions, showSuggestions, acLoading, acTimer, lookups,
                 inputCalls>>
  /\ UNCHANGED <<mapVars, markerVars, modalVars>>

\* handleInputChange: onChange(newValue), clearTimeout, then either the clearing
\* of the list for a blank input or a new timeout of 300 ms, which closes over
\* newValue and the fetchPredictions of this render
HandleInputChange(newValue) ==
  /\ inputCalls < MaxInputs
  /\ inputCalls' = inputCalls + 1
  /\ value' = newValue
  /\ IF newValue = ""
     THEN /\ suggestions' = NoSuggestions
          /\ showSuggestions' = FALSE
          /\ acLoading' = FALSE
          /\ acTimer' = NoTimer
     ELSE /\ acLoading' = TRUE
          /\ acTimer' = [input |-> newValue, isApiLoaded |-> isApiLoaded]
          /\ UNCHANGED <<suggestions, showSuggestions>>
  /\ UNCHANGED <<isApiLoaded, lookups>>
  /\ UNCHANGED <<mapVars, markerVars, modalVars>>

\* the timeout runs: fetchPredictions(input) up to its await
InputTimerFires ==
  /\ acTimer # NoTimer
  /\ acTimer' = NoTimer
  /\ IF ~acTimer.isApiLoaded
     THEN /\ suggestions' = NoSuggestions
          /\ showSuggestions' = FALSE
          /\ acLoading' = FALSE
          /\ UNCHANGED lookups
     ELSE /\ acLoading' = TRUE
          /\ lookups' = Append(lookups, acTimer.input)
          /\ UNCHANGED <<suggestions, showSuggestions>>
  /\ UNCHANGED <<value, isApiLoaded, inputCalls>>
  /\ UNCHANGED <<mapVars, markerVars, modalVars>>

\* fetchAutocompleteSuggestions resolves with n suggestions
LookupResponse(i, n) ==
  /\ i \in DOMAIN lookups
  /\ lookups' = RemoveAt(lookups, i)
  /\ acLoading' = FALSE
  /\ IF n > 0
     THEN /\ suggestions' = [input |-> lookups[i], count |-> Slice(n)]
          /\ showSuggestions' = TRUE
     ELSE /\ suggestions' = NoSuggestions
          /\ showSuggestions' = FALSE
  /\ UNCHANGED <<value, isApiLoaded, acTimer, inputCalls>>
  /\ UNCHANGED <<mapVars, markerVars, modalVars>>

\* fetchAutocompleteSuggestions rejects: the catch
LookupFailure(i) ==
  /\ i \in DOMAIN lookups
  /\ lookups' = RemoveAt(lookups, i)
  /\ acLoading' = FALSE
  /\ suggestions' = NoSuggestions
  /\ showSuggestions' = FALSE
  /\ UNCHANGED <<value, isApiLoaded, acTimer, inputCalls>>
  /\ UNCHANGED <<mapVars, markerVars, modalVars>>

\* handleSuggestionClick on an entry of the open list
HandleSuggestionClick ==
  /\ showSuggestions
  /\ suggestions.count > 0
  /\ value' = DisplayText
  /\ showSuggestions' = FALSE
  /\ suggestions' = NoSuggestions
  /\ UNCHANGED <<acLoading, isApiLoaded, acTimer, lookups, inputCalls>>
  /\ UNCHANGED <<mapVars, markerVars, modalVars>>

\* the timeout of 200 ms set by handleBlur runs
BlurTimeout ==
  /\ showSuggestions
  /\ showSuggestions' = FALSE
  /\ UNCHANGED <<value, suggestions, acLoading, isApiLoaded, acTimer, lookups,
                 inputCalls>>
  /\ UNCHANGED <<mapVars, markerVars, modalVars>>

\* onFocus of the input
Focus ==
  /\ value # ""
  /\ suggestions.count > 0
  /\ ~showSuggestions
  /\ showSuggestions' = TRUE
  /\ UNCHANGED <<value, suggestions, acLoading, isApiLoaded, acTimer, lookups,
                 inputCalls>>
  /\ UNCHANGED <<mapVars, markerVars, modalVars>>

AutocompleteNext ==
  \/ ApiLoads
  \/ \E v \in TypedValues : HandleInputChange(v)
  \/ InputTimerFires
  \/ \E i \in DOMAIN lookups, n \in ResultCounts : LookupResponse(i, n)
  \/ \E i \in DOMAIN lookups : LookupFailure(i)
  \/ HandleSuggestionClick
  \/ BlurTimeout
  \/ Focus

(***************************************************************************)
(* Specifications                                                          *)
(***************************************************************************)
\* the page, the map and the modal as constructed; no booking is going on
Init == MapInit /\ MarkersInit /\ ModalInit /\ tzOffset = 0 /\ token /\ AutocompleteInit

InitModal == MapInit /\ MarkersInit /\ ModalInit /\ tzOffset = 0 /\ AutocompleteInit

InitClick == MapInit /\ MarkersInit /\ ClickInit /\ AutocompleteInit

InitPrice == MapInit /\ MarkersInit /\ PriceInit /\ AutocompleteInit

InitBooking == MapInit /\ MarkersInit /\ BookingInit /\ AutocompleteInit

InitSubmit == MapInit /\ MarkersInit /\ SubmitInit /\ AutocompleteInit

SpecMap == Init /\ [][MapNext]_vars

SpecRoute == Init /\ [][RouteNext]_vars

SpecRouteView == Init /\ [][RouteViewNext]_vars

\* what the runtime and the network do on their own: time passes, a due timer
\* runs, every nearby request settles, geocoding calls settle
MapFairness ==
  /\ WF_vars(Tick)
  /\ WF_vars(\E t \in timers : DebounceTimerFires(t))
  /\ \A r \in 1..MaxRequests :
        WF_vars((\E list \in PlaceLists : NearbyResponse(r, list)) \/ NearbyFailure(r))
  /\ WF_vars(\E g \in DOMAIN geocodes :
                (\E c \in Coords : GeocodeResolves(g, c)) \/ GeocodeFails(g))

\* the map page when every timer runs and every request settles
SpecMapFair == Init /\ [][MapNext]_vars /\ MapFairness

\* the autocomplete input of the search bar
SpecAutocomplete == Init /\ [][AutocompleteNext]_vars

SpecMarkers == Init /\ [][MarkersNext]_vars

SpecModal == InitModal /\ [][ModalNext]_vars

SpecReserve == InitModal /\ [][ReserveNext]_vars

SpecBooking == InitBooking /\ [][BookingNext]_vars

SpecSubmit == InitSubmit /\ [][SubmitNext]_vars

SpecClick == InitClick /\ [][ClickNext]_vars

SpecPrice == InitPrice /\ [][PriceNext]_vars

(***************************************************************************)
(* Map page: properties                                                    *)
(***************************************************************************)
NearbyRequests == { i \in DOMAIN requests : requests[i].kind = "nearby" }

ViewportQueries == { i \in NearbyRequests : requests[i].src = "viewport" }

\* C1: last-request-wins.  For nearby requests a issued before b: a's response
\* never sets the place list once b has been issued; and once every request
\* has settled and the last one succeeded, the place list is the last one's
\* result.
C1_LastRequestWins ==
  /\ \A a, b \in NearbyRequests :
        a < b => (placesBy = a => placesWhen < b)
  /\ \A b \in NearbyRequests :
        (mounted /\ Pending(requests) = {} /\ b = Len(requests)
           /\ requests[b].state = "done")
        => (placesBy = b /\ places = requests[b].result)

\* a was cancelled by the issue of b, b succeeded and its result is shown
C1_Witness ==
  \E a, b \in NearbyRequests :
    /\ a < b
    /\ requests[a].state = "aborted"
    /\ requests[b].state = "done"
    /\ placesBy = b
    /\ places = requests[b].result

\* C2: debounce.  Every query the debounce timer issues is issued exactly
\* DebounceDelay after the last handleBoundsChange call of its burst and
\* carries that call's bounds; a burst gets exactly one query (none while
\* its delay is still running); the only pending timer is the last call's,
\* restarted at that call.
C2_Debounce ==
  /\ \A i \in ViewportQueries :
        /\ requests[i].sinceCall = DebounceDelay
        /\ [lat |-> requests[i].lat, lng |-> requests[i].lng,
            radiusKm |-> requests[i].radiusKm] = BoundsQuery(requests[i].callBounds)
  /\ \A i, j \in ViewportQueries : i # j => requests[i].burst # requests[j].burst
  /\ \A t \in timers :
        t.bounds = lastBounds /\ t.remaining = DebounceDelay - elapsed
  /\ (mounted /\ burstCalls > 0) =>
        /\ elapsed < DebounceDelay => Cardinality(ViewportQueries) = bursts - 1
        /\ elapsed > DebounceDelay => Cardinality(ViewportQueries) = bursts
        /\ Cardinality(ViewportQueries) \in {bursts - 1, bursts}

\* a burst of three calls, each less than DebounceDelay after the previous
\* one, has been answered by one query with the last call's bounds
C2_Witness ==
  /\ burstCalls = 3
  /\ bursts = 1
  /\ elapsed >= DebounceDelay
  /\ Cardinality(ViewportQueries) = 1
  /\ \E i \in ViewportQueries : requests[i].callBounds = lastBounds

\* C3: at most one debounce timer is pending and at most one nearby request
\* is in flight un-aborted; only the request issued last can be in flight.
C3_SinglePending ==
  /\ Cardinality(timers) <= 1
  /\ Cardinality(Pending(requests) \cap NearbyRequests) <= 1
  /\ \A i \in NearbyRequests : i < Len(requests) => requests[i].state # "pending"

\* a viewport query in flight was aborted by the query of a location selection
C3_Witness ==
  /\ Len(requests) = 2
  /\ requests[1].src = "viewport" /\ requests[1].state = "aborted"
  /\ requests[2].src = "select" /\ requests[2].state = "pending"

(***************************************************************************)
(* MapView: properties                                                     *)
(***************************************************************************)
\* the ids whose overlay was created with the entrance animation
Animated == { markersRef[i].id : i \in { j \in DOMAIN markersRef : markersRef[j].isNewMarker } }

OnMap == { markersRef[i].id : i \in DOMAIN markersRef }

\* C9: the markers animated are exactly those of the list now on the map that
\* were not on the map under the immediately preceding list; if the list is a
\* subset of the preceding one, none is animated.
C9_MarkerDiff ==
  isLoaded =>
    /\ OnMap = Range(markers)
    /\ Animated = Range(markers) \ shownBefore
    /\ (Range(markers) \subseteq shownBefore => Animated = {})

\* a non-empty list that is a proper subset of the preceding one: nothing animates
C9_Witness ==
  /\ isLoaded
  /\ markers # <<>>
  /\ Range(markers) \subseteq shownBefore
  /\ Range(markers) # shownBefore
  /\ Animated = {}

\* C10 as stated: a place put on the map by any earlier marker list is never
\* animated again.
C10_NoReanimationEver == Animated \cap seenEarlier = {}

\* C10 amended: a place of the immediately preceding list is not animated
\* again; a place shown earlier that the preceding list did not have is
\* animated again when it returns.
C10_NoReanimationOfPreceding ==
  \A id \in OnMap :
    /\ id \in shownBefore => id \notin Animated
    /\ id \in seenEarlier \ shownBefore => id \in Animated

\* a place shown earlier, absent from the preceding list, is back and animates
C10_Witness ==
  \E id \in OnMap : id \in seenEarlier \ shownBefore /\ id \in Animated

(***************************************************************************)
(* ReserveSpotModal: properties                                            *)
(***************************************************************************)
\* C4: selection clearing.  No non-empty selection holds an hour picked under a
\* date or a feature choice other than the current one: a change of date or a
\* toggle of a feature empties selectedSlots at once.
C4_SelectionCleared ==
  \A b \in selectedUnder :
    b.date = formData.selectedDate /\ b.features = selectedFeatures

\* C5: slot selectability.  A call of handleSlotClick on a slot changes the
\* selection iff the slot is not past and its relevant count is positive, the
\* relevant count being coveredAndCharging with both features, covered +
\* coveredAndCharging with covered only, charging + coveredAndCharging with
\* charging only, and the sum of the four counts with neither; this count is
\* the one getAvailableCountForFeatures returns.
C5_SlotSelectable ==
  lastClick # Null =>
    IF lastClick.slot = Null THEN ~lastClick.changed
    ELSE
      LET slot == lastClick.slot
          f == lastClick.features
          relevant ==
            IF f.covered /\ f.charging THEN slot.coveredAndChargingAvailable
            ELSE IF f.covered
              THEN slot.coveredAvailable + slot.coveredAndChargingAvailable
            ELSE IF f.charging
              THEN slot.chargingAvailable + slot.coveredAndChargingAvailable
            ELSE slot.basicAvailable + slot.coveredAvailable
                   + slot.chargingAvailable + slot.coveredAndChargingAvailable
      IN /\ lastClick.changed <=> (~slot.isPast /\ relevant > 0)
         /\ GetAvailableCountForFeatures(slot, f) = relevant

\* a slot with covered-and-charging spots only is selected under "covered" alone
C5_Witness ==
  /\ lastClick # Null
  /\ lastClick.slot # Null
  /\ lastClick.changed
  /\ lastClick.features = [covered |-> TRUE, charging |-> FALSE]
  /\ lastClick.slot.coveredAvailable = 0
  /\ lastClick.slot.coveredAndChargingAvailable > 0
  /\ selectedSlots = << lastClick.hour >>

\* C6: total price.  calculateTotalPrice is the number of selected hours times
\* (hourlyRate, plus coveredHourlyRate if covered, plus chargingHourlyRate if
\* charging), which is selectedSlots.length times getHourlyRate(); it is 0 for
\* the empty selection.
C6_TotalPrice ==
  LET n == Len(selectedSlots)
      total == CalculateTotalPrice(pricing, selectedFeatures, selectedSlots)
      rate == pricing.hourlyRate
                + (IF selectedFeatures.covered THEN pricing.coveredHourlyRate ELSE 0)
                + (IF selectedFeatures.charging THEN pricing.chargingHourlyRate ELSE 0)
  IN /\ total = n * rate
     /\ total = n * GetHourlyRate(pricing, selectedFeatures)
     /\ (selectedSlots = << >> => total = 0)

\* rates 5/2/3 with both features and three hours selected give 30
C6_Witness ==
  /\ pricing = PricingInfo(5, 2, 3)
  /\ selectedFeatures = [covered |-> TRUE, charging |-> TRUE]
  /\ Len(selectedSlots) = 3
  /\ CalculateTotalPrice(pricing, selectedFeatures, selectedSlots) = 30

C8_TimestampsOnSelectedDate ==
  \A i \in DOMAIN posts :
    LET post == posts[i]
        sel == post.selectedSlots
        h == sel[1]
        k == sel[Len(sel)]
        LocalTime(day, hour) == day * MinutesPerDay + hour * 60 - tzOffset
    IN k - h + 1 = Len(sel) =>
         /\ post.body.startTime = ToISOString(LocalTime(post.selectedDate, h))
         /\ post.body.endTime = ToISOString(LocalTime(post.selectedDate, k + 1))

\* C11: local validation blocks the network.  A call of handleSubmit with no
\* vehicle selected, with no hour selected or without an access token sets an
\* error message, sends no POST, leaves loading false and leaves the vehicle,
\* the date, the selection and the features as they were.
C11_ValidationBlocks ==
  [][(HandleSubmit /\ (formData.vehicleId = "" \/ selectedSlots = << >> \/ ~token))
       => /\ error' # ""
          /\ posts' = posts
          /\ postsSent' = postsSent
          /\ submitting' = FALSE
          /\ formData' = formData
          /\ selectedSlots' = selectedSlots
          /\ selectedFeatures' = selectedFeatures]_vars

\* a submit with vehicle and hours but no token was refused without a POST
C11_Witness ==
  /\ ~token
  /\ formData.vehicleId # ""
  /\ selectedSlots # << >>
  /\ error = "Authentication required. Please sign in again."
  /\ postsSent = 0
  /\ ~submitting

\* C12: a submission reaches a terminal state.  When the response or the
\* failure of a booking POST arrives, the modal shows either the confirmation
\* (success) or a non-empty error message, and not both, whatever the backend
\* answered.
C12_TerminalState ==
  [][Len(posts') < Len(posts)
       => \/ success' /\ error' = ""
          \/ ~success' /\ error' # ""]_vars

\* C13: no double submission.  At most one booking POST is in flight at any
\* time, and while one is in flight loading is true, which disables the
\* Confirm button.
C13_NoDoubleSubmit ==
  /\ Len(posts) <= 1
  /\ posts # << >> => submitting

\* the price summary with a POST in flight: only the disabled button stands in
\* the way of a second one
C13_Witness ==
  /\ SummaryView
  /\ Len(posts) = 1
  /\ postsSent < MaxPosts
  /\ submitting

\* C14: nearby-query failure.  A step in which a nearby request fails or is
\* cancelled leaves the place list, and so the markers made from it, as they
\* were; the page has no error state that the step could set.
C14_FailureKeepsPlaces ==
  [][(\E r \in DOMAIN requests :
        /\ requests[r].state = "pending"
        /\ requests'[r].state \in {"failed", "aborted"})
       => UNCHANGED <<places, placesBy, placesWhen>>]_vars

\* a request failed after an earlier one had filled the list, which is still shown
C14_Witness ==
  \E a, b \in NearbyRequests :
    /\ a < b
    /\ requests[a].state = "done"
    /\ requests[b].state = "failed"
    /\ places = requests[a].result
    /\ places # << >>

\* C15: booking failure reporting.  When a booking POST fails, the error shown
\* is the backend's error string if the response has one and "Failed to create
\* booking" otherwise; no POST is sent in its place, success stays false, and
\* the selection, the vehicle, the date and the features stay as they were.
C15_FailureReported ==
  [][\A i \in DOMAIN posts, msg \in PostErrors :
       PostFailure(i, msg)
         => /\ msg # "" => error' = msg
            /\ msg = "" => error' = "Failed to create booking"
            /\ postsSent' = postsSent
            /\ Len(posts') = Len(posts) - 1
            /\ ~success'
            /\ UNCHANGED <<selectedSlots, formData, selectedFeatures>>]_vars

\* the backend's message is shown on the price summary, the selection is kept
C15_Witness ==
  /\ SummaryView
  /\ error = "Slot already booked"
  /\ posts = << >>
  /\ postsSent = 1
  /\ ~submitting
  /\ selectedSlots # << >>

\* C16: location selection is not debounced.  When the place id of a selected
\* suggestion resolves to coordinates, the step that resolves it sets the map
\* centre to them and issues the nearby query for them, default radius, with
\* no timeout set; when it does not resolve, no query is issued and the centre
\* stays.
C16_SelectNotDebounced ==
  [][\A g \in DOMAIN geocodes :
       geocodes[g].purpose = "select" =>
         /\ \A coords \in Coords :
               GeocodeResolves(g, coords) =>
                 /\ mounted => mapCenter' = coords
                 /\ Len(requests') = Len(requests) + 1
                 /\ LET q == requests'[Len(requests')] IN
                       /\ q.kind = "nearby" /\ q.state = "pending"
                       /\ q.lat = coords.lat /\ q.lng = coords.lng
                       /\ q.radiusKm = DefaultRadiusKm
                 /\ UNCHANGED <<timers, debounceTimerRef>>
         /\ GeocodeFails(g) => UNCHANGED <<requests, mapCenter, timers>>]_vars

\* the query of a selected suggestion is in flight and no viewport change, so
\* no debounce timeout, has ever been involved
C16_Witness ==
  \E r \in NearbyRequests :
    /\ requests[r].src = "select"
    /\ requests[r].state = "pending"
    /\ mapCenter # Null
    /\ mapCenter.lat = requests[r].lat /\ mapCenter.lng = requests[r].lng
    /\ timers = {}
    /\ bursts = 0

\* C17: from the slot grid, picking another date or another feature
\* combination starts a slot fetch and makes loadingSlots true.
C17_FilterChangeReloads ==
  [][(SlotGrid /\ (formData'.selectedDate # formData.selectedDate
                     \/ selectedFeatures' # selectedFeatures))
       => /\ Len(slotFetches') = Len(slotFetches) + 1
          /\ loadingSlots']_vars

\* C17, for the date alone: from the slot grid, picking another date starts a
\* slot fetch for that date and makes loadingSlots true; ticking or unticking a
\* feature starts no fetch and leaves loadingSlots and the loaded slots as they
\* are, it empties the selection.
C17_DateChangeReloads ==
  [][SlotGrid =>
       /\ formData'.selectedDate # formData.selectedDate =>
             /\ Len(slotFetches') = Len(slotFetches) + 1
             /\ slotFetches'[Len(slotFetches')].date = formData'.selectedDate
             /\ loadingSlots'
       /\ selectedFeatures' # selectedFeatures =>
             /\ UNCHANGED <<slotFetches, loadingSlots, timeSlots>>
             /\ selectedSlots' = << >>]_vars

\* covered was ticked without a reload, then another date was picked: its
\* slots are loading
C17_Witness ==
  /\ selectedFeatures.covered
  /\ timeSlots # << >>
  /\ loadingSlots
  /\ Len(slotFetches) = 1
  /\ slotFetches[1].date = formData.selectedDate
  /\ formData.selectedDate # GetTodayDate

\* C18: whenever a fetchTimeSlots call completes, with a response or with a
\* failure, the hour selection is empty.
C18_FetchClearsSelection ==
  [][Len(slotFetches') < Len(slotFetches) => selectedSlots' = << >>]_vars

\* C19: a 201 response shows the confirmation and calls onSuccess once; when
\* the confirmation goes away the modal is closed and the vehicle, the date and
\* the hour selection are reset, so a modal opened again after a 201 starts
\* with no vehicle chosen and no hour selected.
C19_SuccessEffects ==
  [][/\ (\E i \in DOMAIN posts : PostResponse(i, 201)) =>
           /\ success'
           /\ onSuccessCalls' = onSuccessCalls + 1
     /\ (success /\ ~success') =>
           /\ ~open'
           /\ formData' = [vehicleId |-> "", selectedDate |-> GetTodayDate]
           /\ selectedSlots' = << >>
     /\ (~open /\ open' /\ closeTimers > 0) =>
           /\ formData'.vehicleId = ""
           /\ selectedSlots' = << >>]_vars

\* C20: the two place ids of a route search are geocoded at the same time;
\* directions are asked only once both gave coordinates, an along-route request
\* is issued only at an OK directions result of such a search, always with
\* bufferKm = 2 and limit = 50; a search that fails (a place id without
\* coordinates, or directions not OK) issues no along-route request and leaves
\* the place list as it is.
C20_RouteRequest ==
  /\ [](\A r \in DOMAIN alongRequests :
          /\ alongRequests[r].body.bufferKm = 2
          /\ alongRequests[r].body.limit = 50
          /\ routeSearches[alongRequests[r].search].phase = "along"
          /\ routeSearches[alongRequests[r].search].startCoords \in Coords
          /\ routeSearches[alongRequests[r].search].destCoords \in Coords)
  /\ [][\A s \in DOMAIN routeSearches :
          /\ (routeSearches[s].phase = "maps" /\ routeSearches'[s].phase # "maps") =>
                /\ routeSearches'[s].phase = "geocoding"
                /\ ~routeSearches'[s].startDone
                /\ ~routeSearches'[s].destDone
          /\ (routeSearches[s].phase # "routing" /\ routeSearches'[s].phase = "routing") =>
                /\ routeSearches'[s].startCoords \in Coords
                /\ routeSearches'[s].destCoords \in Coords
          /\ (routeSearches[s].phase # "along" /\ routeSearches'[s].phase = "along") =>
                /\ routeSearches[s].phase = "routing"
                /\ Len(alongRequests') = Len(alongRequests) + 1
                /\ alongRequests'[Len(alongRequests')].search = s
          /\ (routeSearches[s].phase # "failed" /\ routeSearches'[s].phase = "failed") =>
                /\ routeSearches[s].phase \in {"geocoding", "routing"}
                /\ UNCHANGED <<alongRequests, places>>
          /\ routeSearches[s].phase = "failed" =>
                /\ routeSearches'[s].phase = "failed"
                /\ \A r \in DOMAIN alongRequests' : alongRequests'[r].search # s]_vars

\* one search failed on a place id without coordinates and issued nothing, the
\* other has its along-route request pending
C20_Witness ==
  /\ Len(routeSearches) = 2
  /\ routeSearches[1].phase = "failed"
  /\ routeSearches[1].startCoords = Null
  /\ routeSearches[1].destCoords \in Coords
  /\ routeSearches[2].phase = "along"
  /\ Len(alongRequests) = 1
  /\ alongRequests[1].state = "pending"
  /\ alongRequests[1].search = 2
  /\ places = << >>

\* C21: while the page is mounted, a loading flag that is true becomes false
\* again, whatever the outcome of the search that set it.
C21_LoadingEnds == (mounted /\ loading) ~> (~mounted \/ ~loading)

\* C22: selectedSlots is always strictly ascending; a click on an enabled slot
\* button adds exactly its hour when the hour is not selected and removes
\* exactly its hour when it is; the hours need not be contiguous.
C22_SelectionShape ==
  /\ [](\A i, j \in DOMAIN selectedSlots : i < j => selectedSlots[i] < selectedSlots[j])
  /\ [][\A i \in DOMAIN timeSlots :
          SlotClick(i) =>
            LET hour == timeSlots[i].hour IN
              IF hour \in Range(selectedSlots)
              THEN /\ Range(selectedSlots') = Range(selectedSlots) \ {hour}
                   /\ Len(selectedSlots') = Len(selectedSlots) - 1
              ELSE /\ Range(selectedSlots') = Range(selectedSlots) \cup {hour}
                   /\ Len(selectedSlots') = Len(selectedSlots) + 1]_vars

\* hours 0 and 2 are selected without hour 1
C22_Witness ==
  /\ SlotGrid
  /\ selectedSlots = <<0, 2>>

\* C23: the unmount clears the pending debounce timeout and aborts the nearby
\* request in flight; after it no timeout is pending, no viewport query is
\* issued and the place list does not change.
C23_UnmountCleanup ==
  /\ [](~mounted => timers = {})
  /\ [][/\ (mounted /\ ~mounted') =>
              /\ timers' = {}
              /\ Pending(requests') = {}
              /\ \A r \in Pending(requests) : requests'[r].state = "aborted"
        /\ ~mounted =>
              /\ places' = places
              /\ \A r \in DOMAIN requests' :
                    r \notin DOMAIN requests => requests'[r].src # "viewport"]_vars

\* the page was unmounted with the timeout of the last viewport change pending
\* and a request in flight: the request is aborted, the query never issued
C23_Witness ==
  /\ ~mounted
  /\ bursts > 0
  /\ \A r \in DOMAIN requests : requests[r].burst # bursts
  /\ requests # << >>
  /\ requests[Len(requests)].state = "aborted"
  /\ timers = {}

\* C24: when the last outstanding fetchTimeSlots request is answered, the
\* answer shown is the one to the request for the current location, date and
\* vehicle type, in whatever order the answers arrived.
C24_LatestSlotsShown ==
  [][\A i \in DOMAIN slotFetches, resp \in SlotResponses :
        (SlotsResponse(i, resp) /\ slotFetches' = << >>) =>
           slotFetches[i] = SlotRequest(landOwnerId, formData, vehicles)]_vars

\* C25: whenever a booking POST is sent, every selected hour was picked under
\* the date the POST carries; no selection made under another date reaches the
\* POST through Continue and Confirm.
C25_BookedAsSelected ==
  [][(ConfirmBooking /\ postsSent' = postsSent + 1) =>
        \A b \in selectedUnder : b.date = formData.selectedDate]_vars

\* C26: the totalPrice of every booking sent is the hourly rate for the chosen
\* features times the number of hours of the window sent, which is the largest
\* selected hour plus one minus the smallest.
C26_PriceCoversWindow ==
  [][(ConfirmBooking /\ postsSent' = postsSent + 1) =>
        LET hours == Range(selectedSlots)
            min == CHOOSE h \in hours : \A k \in hours : h <= k
            max == CHOOSE h \in hours : \A k \in hours : k <= h
        IN posts'[Len(posts')].body.totalPrice
             = GetHourlyRate(pricing, selectedFeatures) * (max + 1 - min)]_vars

\* C27: while the page is mounted and a nearby request that was not aborted is
\* in flight, loading is true.
C27_LoadingTracksRequest ==
  (mounted /\ Pending(requests) # {}) => loading

\* C28: with no action of the user on the map, once an along-route response
\* has set the place list only another along-route response changes it: no
\* nearby response follows from the centring of the map on the route.
C28_RouteResultsKept ==
  [][(mounted /\ \E r \in DOMAIN alongRequests : alongRequests[r].state = "done") =>
        \/ places' = places
        \/ \E r \in DOMAIN alongRequests, list \in PlaceLists :
              AlongRouteResponse(r, list)]_vars

\* C29: for every slot and feature choice, the slot button is disabled exactly
\* when handleSlotClick ignores a call for its hour.
C29_GridAgreesWithHandler ==
  (lastClick # Null /\ lastClick.slot # Null) =>
     (IsDisabled(lastClick.slot, lastClick.features) <=> ~lastClick.changed)

\* C30: the suggestions follow the latest input: a list never holds more than
\* 5 entries; once no timeout is pending and every lookup has settled, a
\* non-empty list is the one for the text now in the input; and while the input
\* is empty or holds the text of a picked suggestion, the list is empty and
\* closed, whatever responses of earlier lookups arrive.
C30_SuggestionsFollowInput ==
  /\ suggestions.count <= SuggestionLimit
  /\ (acTimer = NoTimer /\ lookups = << >> /\ suggestions.count > 0)
        => suggestions.input = value
  /\ (value = "" \/ value = DisplayText)
        => (suggestions.count = 0 /\ ~showSuggestions)

====
